---- MODULE Spec2Model ----
(***************************************************************************)
(* A model of yacchi/go-jsonrpc-client: the identifier type IDValue        *)
(* (jsonrpc.go), the default sequence id generator and the Client's        *)
(* Invoke / InvokeBatch (client.go).                                       *)
(*                                                                         *)
(* Go values are represented as follows.  A pointer is a tuple: <<>> is    *)
(* the nil pointer and <<v>> points to v.  JSON texts ([]byte) are the     *)
(* strings of their characters, so that encoding and decoding go through   *)
(* the text.  Strings range over plain printable text.                     *)
(***************************************************************************)
EXTENDS Integers, Sequences, FiniteSets, TLC

VARIABLES
    \* ---- identifier operations (jsonrpc.go)
    ids,        \* two identifiers under test, ids[1] and ids[2] (IDValue structs)
    lastOp,     \* the operation applied last
    opSlot,     \* the identifier it was applied to
    wire,       \* the JSON text last produced by, or handed to, an operation
    unmErr,     \* TRUE iff the last UnmarshalJSON returned an error
    eq,         \* the result of the last Equal
    panicked,   \* TRUE iff the last operation panicked
    objWire,    \* the JSON object last produced by marshalling a JSONRPCRequest
    \* ---- the sequence id generator (client.go, WithSequenceIDGenerator)
    intSize,    \* the width of Go's int in this build: 32 or 64 bits
    seq,        \* var seq int
    mu,         \* var mu sync.Mutex: 0 when unlocked, else the caller holding it
    drawn,      \* the ids handed out to the callers, in the order of their return
    advanced,   \* TRUE once SequenceAdvance has run
    \* ---- the calls in progress (client.go, Invoke and InvokeBatch), per caller
    pc,         \* where the caller is in its call
    kind,       \* "Invoke" or "InvokeBatch"
    invs,       \* the descriptors handed to the call (Invoke structs)
    requests,   \* the wire requests built from them
    genIdx,     \* the positions of the requests whose id the generator supplied
    output,     \* what Transport.SendRequest returned
    ret,        \* the error the call returned
    sends,      \* the number of SendRequest calls made by the call
    calls,      \* the number of calls the caller has started
    since       \* ids drawn since the call drew its first id (saturating)

idVars == <<ids, lastOp, opSlot, wire, unmErr, eq, panicked, objWire>>
genVars == <<intSize, seq, mu, drawn, advanced>>
callVars == <<pc, kind, invs, requests, genIdx, output, ret, sends, calls, since>>

vars == <<idVars, genVars, callVars>>

-----------------------------------------------------------------------------
(* Pointers *)

NilP == <<>>
Ptr(v) == <<v>>
Deref(p) == p[1]

-----------------------------------------------------------------------------
(* IDValue: jsonrpc.go *)

\* The strings and integers identifiers are built from.
IDStrings == {"", "1", "42", "null"}
IDInts == {0, 1, 42}

\* type IDValue struct { strVar *string; intVar *int }
IDValue(s, n) == [strVar |-> s, intVar |-> n]

ZeroID == IDValue(NilP, NilP)

IDValues == {IDValue(s, n) :
                s \in {NilP} \cup {Ptr(x) : x \in IDStrings},
                n \in {NilP} \cup {Ptr(x) : x \in IDInts}}

\* NewID, case string
NewIDString(v) == IDValue(Ptr(v), NilP)

\* NewID, cases int, int32, uint32: all narrow to int
NewIDInt(v) == IDValue(NilP, Ptr(v))

\* (*IDValue).New
New(i) == IDValue(NilP, NilP)

\* fmt.Sprintf("%d", n)
SprintfD(n) == ToString(n)

\* (*IDValue).String
String(i) ==
    IF i.strVar # NilP THEN Deref(i.strVar)
    ELSE IF i.intVar # NilP THEN SprintfD(Deref(i.intVar))
    ELSE "null"

\* (*IDValue).IsZero
IsZero(i) == i.strVar = NilP /\ i.intVar = NilP

\* A dynamically typed value (any) holding a string, an int or nil.
AnyString(s) == [type |-> "string", str |-> s, num |-> 0]
AnyInt(n) == [type |-> "int", str |-> "", num |-> n]
AnyNil == [type |-> "nil", str |-> "", num |-> 0]

\* (*IDValue).Value
Value(i) ==
    IF i.strVar # NilP THEN AnyString(Deref(i.strVar))
    ELSE IF i.intVar # NilP THEN AnyInt(Deref(i.intVar))
    ELSE AnyNil

\* (*IDValue).Equal for a receiver i and an other that points to an IDValue.
Equal(i, o) ==
    IF i.strVar # NilP /\ o.strVar # NilP
    THEN Deref(i.strVar) = Deref(o.strVar)
    ELSE IF i.intVar # NilP /\ o.intVar # NilP
    THEN Deref(i.intVar) = Deref(o.intVar)
    ELSE FALSE

\* The argument of Equal, an interface value (other any): the nil interface,
\* or a *IDValue that is nil (ptr = NilP) or points to an identifier.
NilInterface == [type |-> "nil", ptr |-> NilP]
IDValuePointer(ptr) == [type |-> "*IDValue", ptr |-> ptr]

\* (*IDValue).Equal for any argument: whether the call panics, and its result
\* when it does not.  `other == nil` is true of the nil interface only; for
\* a nil *IDValue the type assertion gives o = nil, and the first case whose
\* left operand is true reads a field through o.
EqualAny(i, other) ==
    IF other.type = "nil" THEN [panics |-> FALSE, result |-> FALSE]
    ELSE IF other.ptr = NilP
    THEN [panics |-> i.strVar # NilP \/ i.intVar # NilP, result |-> FALSE]
    ELSE [panics |-> FALSE, result |-> Equal(i, Deref(other.ptr))]

-----------------------------------------------------------------------------
(* encoding/json on the scalars an id is made of *)

\* json.Marshal of a string: the text between double quotes.
Quote(s) == "\"" \o s \o "\""

\* json.Marshal of an int: its decimal text.
MarshalInt(n) == ToString(n)

\* json.Unmarshal(bytes, &str) succeeds: bytes is a JSON string.
IsJSONString(bytes) == \E s \in IDStrings : bytes = Quote(s)
UnquoteJSON(bytes) == CHOOSE s \in IDStrings : bytes = Quote(s)

\* json.Unmarshal(bytes, &intValue) succeeds: bytes is an integer literal.
IsJSONInt(bytes) == \E n \in IDInts : bytes = MarshalInt(n)
ParseInt(bytes) == CHOOSE n \in IDInts : bytes = MarshalInt(n)

\* JSON texts that are neither null, a string nor an integer.
OtherJSON == {"{}", "[]", "true", "1.5"}

WireTexts ==
    {"null"} \cup {Quote(s) : s \in IDStrings}
             \cup {MarshalInt(n) : n \in IDInts} \cup OtherJSON

\* (*IDValue).UnmarshalJSON: the identifier afterwards and whether an error
\* is returned.
UnmarshalJSON(i, bytes) ==
    IF bytes = "null"
    THEN [id |-> [i EXCEPT !.strVar = NilP, !.intVar = NilP], err |-> FALSE]
    ELSE IF IsJSONString(bytes)
    THEN [id |-> [i EXCEPT !.strVar = Ptr(UnquoteJSON(bytes))], err |-> FALSE]
    ELSE IF IsJSONInt(bytes)
    THEN [id |-> [i EXCEPT !.intVar = Ptr(ParseInt(bytes))], err |-> FALSE]
    ELSE [id |-> i, err |-> TRUE]

\* A MarshalJSON that writes a string id without its quotes.
MarshalJSONUnquoted(i) ==
    IF i.strVar # NilP THEN Deref(i.strVar)
    ELSE IF i.intVar # NilP THEN MarshalInt(Deref(i.intVar))
    ELSE "null"

\* (*IDValue).MarshalJSON
MarshalJSON(i) ==
    IF i.strVar # NilP THEN Quote(Deref(i.strVar))
    ELSE IF i.intVar # NilP THEN MarshalInt(Deref(i.intVar))
    ELSE "null"

-----------------------------------------------------------------------------
(* Message envelopes: jsonrpc.go *)

\* The method names and request payloads callers use.  Omit is the sentinel
\* payload type (client.go, type Omit struct{}).
Methods == <<"foo", "bar", "baz", "qux">>
Omit == "Omit"
Payloads == {"p1", "p2"}

\* type JSONRPCRequest struct: ID is a *IDValue, Params an interface value
\* (NilP is the nil interface).
JSONRPCRequestOf(id, method, params) ==
    [Version |-> "2.0", ID |-> id, Method |-> method, Params |-> params]

\* json.Marshal of a request payload.
MarshalParams(p) == "{\"param\":" \o Quote(p) \o "}"

\* An omitzero that omits a nil pointer only, as omitempty does.
OmitNilOnly(idptr) == idptr = NilP

\* The tag `json:"id,omitzero"` on a *IDValue: the member is left out when
\* the pointer is nil or its IsZero method returns true.
OmitZero(idptr) == idptr = NilP \/ IsZero(Deref(idptr))

\* The tag `json:"params,omitempty"` on an interface value.
OmitEmpty(params) == params = NilP

\* json.Marshal of a JSONRPCRequest: the members of the object, each absent
\* (NilP) or present with its JSON text.
MarshalRequest(req) ==
    [jsonrpc |-> Ptr(Quote(req.Version)),
     id      |-> IF OmitZero(req.ID) THEN NilP ELSE Ptr(MarshalJSON(Deref(req.ID))),
     method  |-> Ptr(Quote(req.Method)),
     params  |-> IF OmitEmpty(req.Params) THEN NilP
                 ELSE Ptr(MarshalParams(Deref(req.Params)))]

NoObject == [jsonrpc |-> NilP, id |-> NilP, method |-> NilP, params |-> NilP]

-----------------------------------------------------------------------------
(* Operations on identifiers, applied one at a time *)

Slots == {1, 2}

\* The arguments of Equal that refer to no identifier: Equal(nil) and
\* Equal((*IDValue)(nil)).
MissingReferences == {NilInterface, IDValuePointer(NilP)}
OtherSlot(k) == 3 - k

\* What an operation leaves for inspection: its name, the identifier it was
\* applied to and its outputs (the outputs of earlier operations are dropped).
Outcome(op, k, text, err, equal, obj) ==
    /\ lastOp' = op
    /\ opSlot' = k
    /\ wire' = text
    /\ unmErr' = err
    /\ eq' = equal
    /\ panicked' = FALSE
    /\ objWire' = obj
    /\ UNCHANGED <<genVars, callVars>>

\* ids[k] = NewID(v) for a string v
IdNewIDString(k, v) ==
    /\ ids' = [ids EXCEPT ![k] = NewIDString(v)]
    /\ Outcome("NewID", k, "", FALSE, FALSE, NoObject)

\* ids[k] = NewID(v) for an integer v
IdNewIDInt(k, v) ==
    /\ ids' = [ids EXCEPT ![k] = NewIDInt(v)]
    /\ Outcome("NewID", k, "", FALSE, FALSE, NoObject)

\* ids[k] = ids[OtherSlot(k)].New()
IdNew(k) ==
    /\ ids' = [ids EXCEPT ![k] = New(ids[OtherSlot(k)])]
    /\ Outcome("New", k, "", FALSE, FALSE, NoObject)

\* ids[k].UnmarshalJSON(bytes)
IdUnmarshalJSON(k, bytes) ==
    /\ ids' = [ids EXCEPT ![k] = UnmarshalJSON(ids[k], bytes).id]
    /\ Outcome("UnmarshalJSON", k, bytes, UnmarshalJSON(ids[k], bytes).err,
               FALSE, NoObject)

\* ids[k].MarshalJSON()
IdMarshalJSON(k) ==
    /\ UNCHANGED ids
    /\ Outcome("MarshalJSON", k, MarshalJSON(ids[k]), FALSE, FALSE, NoObject)

\* ids[k].Equal(&ids[OtherSlot(k)])
IdEqual(k) ==
    /\ UNCHANGED ids
    /\ Outcome("Equal", k, "", FALSE, Equal(ids[k], ids[OtherSlot(k)]), NoObject)

\* ids[k].Equal(other) for an other that refers to no identifier.
IdEqualMissing(k, other) ==
    /\ UNCHANGED ids
    /\ lastOp' = "EqualMissing"
    /\ opSlot' = k
    /\ wire' = other.type
    /\ unmErr' = FALSE
    /\ eq' = EqualAny(ids[k], other).result
    /\ panicked' = EqualAny(ids[k], other).panics
    /\ objWire' = NoObject
    /\ UNCHANGED <<genVars, callVars>>

\* bytes := ids[k].MarshalJSON(); fresh := ids[k].New(); fresh.UnmarshalJSON(bytes),
\* the decoded identifier being kept in the other slot.
IdRoundTrip(k) ==
    /\ ids' = [ids EXCEPT ![OtherSlot(k)] =
                   UnmarshalJSON(New(ids[k]), MarshalJSON(ids[k])).id]
    /\ Outcome("RoundTrip", k, MarshalJSON(ids[k]),
               UnmarshalJSON(New(ids[k]), MarshalJSON(ids[k])).err, FALSE, NoObject)

\* json.Marshal(&JSONRPCRequest{Version: "2.0", ID: id, Method: m}) with id
\* the nil pointer (withID = FALSE) or &ids[k].
IdMarshalRequest(k, withID, m) ==
    /\ UNCHANGED ids
    /\ Outcome(IF withID THEN "MarshalRequest" ELSE "MarshalRequestNilID", k, "",
               FALSE, FALSE,
               MarshalRequest(
                   JSONRPCRequestOf(IF withID THEN Ptr(ids[k]) ELSE NilP, m, NilP)))

IdNext ==
    \/ \E k \in Slots, v \in IDStrings : IdNewIDString(k, v)
    \/ \E k \in Slots, v \in IDInts : IdNewIDInt(k, v)
    \/ \E k \in Slots : IdNew(k)
    \/ \E k \in Slots, bytes \in WireTexts : IdUnmarshalJSON(k, bytes)
    \/ \E k \in Slots : IdMarshalJSON(k)
    \/ \E k \in Slots : IdEqual(k)
    \/ \E k \in Slots, other \in MissingReferences : IdEqualMissing(k, other)
    \/ \E k \in Slots : IdRoundTrip(k)
    \/ \E k \in Slots, withID \in BOOLEAN : IdMarshalRequest(k, withID, Methods[1])

-----------------------------------------------------------------------------
(* Errors: errors.go.  Every error is a record of the same shape; ErrNil is  *)
(* the nil error.                                                            *)

ErrorOf(type, method, code, message, data, err) ==
    [type |-> type, Method |-> method, Code |-> code, Message |-> message,
     Data |-> data, Err |-> err]

ErrNil == ErrorOf("nil", "", 0, "", NilP, "")
InvalidRequestError(message) == ErrorOf("InvalidRequestError", "", 0, message, NilP, "")
EmptyResponseError(method) == ErrorOf("EmptyResponseError", method, 0, "", NilP, "")
EmptyResultError(method) == ErrorOf("EmptyResultError", method, 0, "", NilP, "")
UnmarshalError(method, err) == ErrorOf("UnmarshalError", method, 0, "", NilP, err)
MissingResponseError(method) == ErrorOf("MissingResponseError", method, 0, "", NilP, "")
RPCError(method, code, message, data) ==
    ErrorOf("RPCError", method, code, message, data, "")
\* An error made by the transport, identified by err.
TransportError(err) == ErrorOf("transport", "", 0, "", NilP, err)

-----------------------------------------------------------------------------
(* The invocation descriptor: client.go, type Invoke[Tin, Tout] *)

\* Request is the payload (Omit for the sentinel type); Tout is the type of
\* the response slot, "int" or "Omit"; Response is the slot.
InvokeOf(id, name, request, tout, response) ==
    [ID |-> id, Name |-> name, Request |-> request, Tout |-> tout,
     Response |-> response]

\* A JSONRPCRequest that takes the Omit payload for params like any other.
JSONRPCRequestKeepingOmit(i) == JSONRPCRequestOf(i.ID, i.Name, Ptr(i.Request))

\* (*Invoke).JSONRPCRequest
JSONRPCRequest(i) ==
    JSONRPCRequestOf(i.ID, i.Name, IF i.Request = Omit THEN NilP ELSE Ptr(i.Request))

\* type JSONRPCError struct
JSONRPCErrorOf(code, message, data) == [Code |-> code, Message |-> message, Data |-> data]

\* type JSONRPCResponse struct: Result is a json.RawMessage (NilP when nil),
\* Error a *JSONRPCError.
JSONRPCResponseOf(id, result, error) ==
    [Version |-> "2.0", ID |-> id, Result |-> result, Error |-> error]

\* The integers a result may carry.
ResultInts == {101, 102, 103, 104}

\* json.Unmarshal(text, &slot) for a slot of type tout: the slot afterwards
\* and the parse error ("" for none).  JSON null is accepted by every type
\* and changes nothing; an int takes an integer literal; the empty struct Omit
\* takes any object.
JSONUnmarshal(tout, slot, text) ==
    IF text = "null" THEN [slot |-> slot, err |-> ""]
    ELSE IF tout = "int" /\ (\E n \in ResultInts : text = MarshalInt(n))
    THEN [slot |-> CHOOSE n \in ResultInts : text = MarshalInt(n), err |-> ""]
    ELSE IF tout = "Omit" /\ text = "{}"
    THEN [slot |-> slot, err |-> ""]
    ELSE [slot |-> slot, err |-> "json: cannot unmarshal"]

\* An Unmarshal that decodes the result whatever the request payload is.
UnmarshalAlways(i, resp) ==
    IF resp.Result = NilP
    THEN [inv |-> i, err |-> EmptyResultError(i.Name)]
    ELSE LET r == JSONUnmarshal(i.Tout, i.Response, Deref(resp.Result))
         IN  IF r.err # ""
             THEN [inv |-> [i EXCEPT !.Response = r.slot],
                   err |-> UnmarshalError(i.Name, r.err)]
             ELSE [inv |-> [i EXCEPT !.Response = r.slot], err |-> ErrNil]

\* (*Invoke).Unmarshal: the descriptor afterwards and the error returned.
Unmarshal(i, resp) ==
    IF i.Request = Omit THEN [inv |-> i, err |-> ErrNil]
    ELSE IF resp.Result = NilP
    THEN [inv |-> i, err |-> EmptyResultError(i.Name)]
    ELSE LET r == JSONUnmarshal(i.Tout, i.Response, Deref(resp.Result))
         IN  IF r.err # ""
             THEN [inv |-> [i EXCEPT !.Response = r.slot],
                   err |-> UnmarshalError(i.Name, r.err)]
             ELSE [inv |-> [i EXCEPT !.Response = r.slot], err |-> ErrNil]

-----------------------------------------------------------------------------
(* The sequence id generator: client.go, WithSequenceIDGenerator *)

MaxInt32 == 2147483647
MinInt32 == -MaxInt32 - 1
IntSizes == {32, 64}

\* A sequence that goes back to 1 after 2.
IncrementAndWrapAtTwo(s, bits) == IF s = 2 THEN 1 ELSE s + 1

\* seq++ followed by `if seq > math.MaxInt32 { seq = 1 }` on an int of the
\* given width.  From MaxInt32 the increment gives 2^31 on 64 bits, which is
\* above MaxInt32 and is reset to 1; on 32 bits it wraps to MinInt32, which
\* is not above MaxInt32 and is kept.
IncrementAndWrap(s, bits) ==
    IF s = MaxInt32
    THEN IF bits = 32 THEN MinInt32 ELSE 1
    ELSE s + 1

\* A mutex that never blocks.
MutexNeverHeld(m) == TRUE

\* mu.Lock() returns only when no caller holds the mutex.
MutexFree(m) == m = 0

\* n + k, saturating at MaxInt32 (for the counters of the ids drawn).
SatAdd(n, k) == IF n >= MaxInt32 - k THEN MaxInt32 ELSE n + k

-----------------------------------------------------------------------------
(* The Transport: an external collaborator.  SendRequest returns an output *)
(* and an error; the output is a nil pointer or holds the responses.       *)

\* (output, err) as returned by Transport.SendRequest; err = "" is the nil
\* error.
OutputOf(err, isNil, responses) ==
    [err |-> err, isNil |-> isNil, Responses |-> responses]

NoOutput == OutputOf("", TRUE, <<>>)

-----------------------------------------------------------------------------
(* Client.Invoke and Client.InvokeBatch: client.go *)

NumCallers == 2
MaxCalls == 2
MaxBatch == 2
MaxResponses == 2

Callers == 1..NumCallers

\* The positions of the requests that still have no id.
NeedsID(reqs) == {i \in 1..Len(reqs) : reqs[i].ID = NilP}
FirstNeedingID(reqs) == CHOOSE i \in NeedsID(reqs) : \A j \in NeedsID(reqs) : i <= j

\* A call is in progress from its start to its return.
InProgress(p) == pc[p] \notin {"idle", "done"}

\* The generated ids a call holds.
HeldIDs(p) == {Deref(requests[p][i].ID) : i \in genIdx[p]}

\* The start of a call of the given kind on the descriptors ds: the requests
\* are built (req.JSONRPCRequest()) and the call goes on to draw an id for
\* the first request without one, or to send.
Start(p, k, ds) ==
    LET reqs == [i \in 1..Len(ds) |-> JSONRPCRequest(ds[i])]
    IN  /\ kind' = [kind EXCEPT ![p] = k]
        /\ invs' = [invs EXCEPT ![p] = ds]
        /\ requests' = [requests EXCEPT ![p] = reqs]
        /\ genIdx' = [genIdx EXCEPT ![p] = {}]
        /\ output' = [output EXCEPT ![p] = NoOutput]
        /\ ret' = [ret EXCEPT ![p] = ErrNil]
        /\ sends' = [sends EXCEPT ![p] = 0]
        /\ calls' = [calls EXCEPT ![p] = calls[p] + 1]
        /\ since' = [since EXCEPT ![p] = 0]
        /\ pc' = [pc EXCEPT ![p] = IF NeedsID(reqs) # {} THEN "lock" ELSE "send"]

\* c.Invoke(ctx, d)
Invoke(p, d) ==
    /\ pc[p] = "idle"
    /\ calls[p] < MaxCalls
    /\ Start(p, "Invoke", <<d>>)
    /\ UNCHANGED <<idVars, genVars>>

\* An InvokeBatch that does not look at the length of the list.
InvokeBatchUnchecked(p, ds) ==
    /\ pc[p] = "idle"
    /\ calls[p] < MaxCalls
    /\ Start(p, "InvokeBatch", ds)
    /\ UNCHANGED <<idVars, genVars>>

\* c.InvokeBatch(ctx, ds): an empty list is refused at once.
InvokeBatch(p, ds) ==
    /\ pc[p] = "idle"
    /\ calls[p] < MaxCalls
    /\ IF Len(ds) = 0
       THEN /\ kind' = [kind EXCEPT ![p] = "InvokeBatch"]
            /\ invs' = [invs EXCEPT ![p] = ds]
            /\ requests' = [requests EXCEPT ![p] = <<>>]
            /\ genIdx' = [genIdx EXCEPT ![p] = {}]
            /\ output' = [output EXCEPT ![p] = NoOutput]
            /\ ret' = [ret EXCEPT ![p] = InvalidRequestError("no requests provided")]
            /\ sends' = [sends EXCEPT ![p] = 0]
            /\ calls' = [calls EXCEPT ![p] = calls[p] + 1]
            /\ since' = [since EXCEPT ![p] = 0]
            /\ pc' = [pc EXCEPT ![p] = "done"]
       ELSE Start(p, "InvokeBatch", ds)
    /\ UNCHANGED <<idVars, genVars>>

\* generateId: mu.Lock()
GenLock(p) ==
    /\ pc[p] = "lock"
    /\ MutexFree(mu)
    /\ mu' = p
    /\ pc' = [pc EXCEPT ![p] = "incr"]
    /\ UNCHANGED <<idVars, intSize, seq, drawn, advanced, kind, invs, requests,
                   genIdx, output, ret, sends, calls, since>>

\* generateId: seq++; if seq > math.MaxInt32 { seq = 1 }.  An id is drawn:
\* the calls in progress that hold a generated id count it.
GenIncrement(p) ==
    /\ pc[p] = "incr"
    /\ seq' = IncrementAndWrap(seq, intSize)
    /\ since' = [q \in Callers |->
                    IF InProgress(q) /\ genIdx[q] # {}
                    THEN SatAdd(since[q], 1) ELSE since[q]]
    /\ pc' = [pc EXCEPT ![p] = "unlock"]
    /\ UNCHANGED <<idVars, intSize, mu, drawn, advanced, kind, invs, requests,
                   genIdx, output, ret, sends, calls>>

\* A generator that returns the id without unlocking the mutex.
GenReturnKeepingLock(p) ==
    LET i == FirstNeedingID(requests[p])
        reqs == [requests[p] EXCEPT ![i].ID = Ptr(NewIDInt(seq))]
    IN  /\ pc[p] = "unlock"
        /\ drawn' = Append(drawn, seq)
        /\ requests' = [requests EXCEPT ![p] = reqs]
        /\ genIdx' = [genIdx EXCEPT ![p] = genIdx[p] \cup {i}]
        /\ pc' = [pc EXCEPT ![p] = IF NeedsID(reqs) # {} THEN "lock" ELSE "send"]
        /\ UNCHANGED <<idVars, intSize, seq, mu, advanced, kind, invs, output, ret,
                       sends, calls, since>>

\* A Client that stores the generated id in the descriptor as well.
GenReturnIntoDescriptor(p) ==
    LET i == FirstNeedingID(requests[p])
        reqs == [requests[p] EXCEPT ![i].ID = Ptr(NewIDInt(seq))]
    IN  /\ pc[p] = "unlock"
        /\ mu' = 0
        /\ drawn' = Append(drawn, seq)
        /\ requests' = [requests EXCEPT ![p] = reqs]
        /\ invs' = [invs EXCEPT ![p][i].ID = Ptr(NewIDInt(seq))]
        /\ genIdx' = [genIdx EXCEPT ![p] = genIdx[p] \cup {i}]
        /\ pc' = [pc EXCEPT ![p] = IF NeedsID(reqs) # {} THEN "lock" ELSE "send"]
        /\ UNCHANGED <<idVars, intSize, seq, advanced, kind, output, ret,
                       sends, calls, since>>

\* generateId: return NewID(seq), with the deferred mu.Unlock(); the caller
\* stores the id in the request (request.ID = c.generateId()).
GenReturn(p) ==
    LET i == FirstNeedingID(requests[p])
        reqs == [requests[p] EXCEPT ![i].ID = Ptr(NewIDInt(seq))]
    IN  /\ pc[p] = "unlock"
        /\ mu' = 0
        /\ drawn' = Append(drawn, seq)
        /\ requests' = [requests EXCEPT ![p] = reqs]
        /\ genIdx' = [genIdx EXCEPT ![p] = genIdx[p] \cup {i}]
        /\ pc' = [pc EXCEPT ![p] = IF NeedsID(reqs) # {} THEN "lock" ELSE "send"]
        /\ UNCHANGED <<idVars, intSize, seq, advanced, kind, invs, output, ret,
                       sends, calls, since>>

\* c.transport.SendRequest(ctx, input) is called: the caller is inside the
\* transport until it returns.
SendRequest(p) ==
    /\ pc[p] = "send"
    /\ sends' = [sends EXCEPT ![p] = sends[p] + 1]
    /\ pc' = [pc EXCEPT ![p] = "transport"]
    /\ UNCHANGED <<idVars, genVars, kind, invs, requests, genIdx, output, ret,
                   calls, since>>

\* SendRequest returns out.
TransportReturn(p, out) ==
    /\ pc[p] = "transport"
    /\ output' = [output EXCEPT ![p] = out]
    /\ pc' = [pc EXCEPT ![p] = "recv"]
    /\ UNCHANGED <<idVars, genVars, kind, invs, requests, genIdx, ret, sends,
                   calls, since>>

\* SendRequest returns out after it has set the ID of the requests at the
\* positions in strip to nil: input.Requests holds the pointers the Client
\* goes on to use (client_test.go, "with notification requests").
TransportStripsIDs(p, out, strip) ==
    /\ pc[p] = "transport"
    /\ strip # {}
    /\ strip \subseteq 1..Len(requests[p])
    /\ requests' = [requests EXCEPT
                       ![p] = [i \in 1..Len(requests[p]) |->
                                  IF i \in strip
                                  THEN [requests[p][i] EXCEPT !.ID = NilP]
                                  ELSE requests[p][i]]]
    /\ output' = [output EXCEPT ![p] = out]
    /\ pc' = [pc EXCEPT ![p] = "recv"]
    /\ UNCHANGED <<idVars, genVars, kind, invs, genIdx, ret, sends, calls, since>>

\* An Invoke that decodes the result of the first response, when it has one,
\* before it looks at the error payload.
InvokeOutcomeDecodeFirst(inv, request, out) ==
    IF out.err # "" THEN [ret |-> TransportError(out.err), inv |-> inv]
    ELSE IF out.isNil \/ Len(out.Responses) = 0
    THEN [ret |-> EmptyResponseError(request.Method), inv |-> inv]
    ELSE LET response == out.Responses[1]
             u == Unmarshal(inv, response)
         IN  IF response.Error # NilP
             THEN [ret |-> RPCError(request.Method,
                                    Deref(response.Error).Code,
                                    Deref(response.Error).Message,
                                    Deref(response.Error).Data),
                   inv |-> IF response.Result # NilP THEN u.inv ELSE inv]
             ELSE [ret |-> u.err, inv |-> u.inv]

\* An Invoke that wraps the error of the transport in an error of its own.
InvokeOutcomeWrapping(inv, request, out) ==
    IF out.err # ""
    THEN [ret |-> ErrorOf("InvokeError", request.Method, 0, "", NilP, out.err),
          inv |-> inv]
    ELSE IF out.isNil \/ Len(out.Responses) = 0
    THEN [ret |-> EmptyResponseError(request.Method), inv |-> inv]
    ELSE LET response == out.Responses[1]
         IN  IF response.Error # NilP
             THEN [ret |-> RPCError(request.Method,
                                    Deref(response.Error).Code,
                                    Deref(response.Error).Message,
                                    Deref(response.Error).Data),
                   inv |-> inv]
             ELSE [ret |-> Unmarshal(inv, response).err,
                   inv |-> Unmarshal(inv, response).inv]

\* An Invoke that reports a missing response when the first response does
\* not carry the id of the request.
InvokeOutcomeMatchingID(inv, request, out) ==
    IF out.err # "" THEN [ret |-> TransportError(out.err), inv |-> inv]
    ELSE IF out.isNil \/ Len(out.Responses) = 0
    THEN [ret |-> EmptyResponseError(request.Method), inv |-> inv]
    ELSE LET response == out.Responses[1]
         IN  IF response.ID = NilP \/ ~Equal(Deref(response.ID), Deref(request.ID))
             THEN [ret |-> MissingResponseError(request.Method), inv |-> inv]
             ELSE IF response.Error # NilP
             THEN [ret |-> RPCError(request.Method,
                                    Deref(response.Error).Code,
                                    Deref(response.Error).Message,
                                    Deref(response.Error).Data),
                   inv |-> inv]
             ELSE [ret |-> Unmarshal(inv, response).err,
                   inv |-> Unmarshal(inv, response).inv]

\* Invoke after SendRequest has returned: the error returned to the caller
\* and the descriptor afterwards.
InvokeOutcome(inv, request, out) ==
    IF out.err # "" THEN [ret |-> TransportError(out.err), inv |-> inv]
    ELSE IF out.isNil \/ Len(out.Responses) = 0
    THEN [ret |-> EmptyResponseError(request.Method), inv |-> inv]
    ELSE LET response == out.Responses[1]
         IN  IF response.Error # NilP
             THEN [ret |-> RPCError(request.Method,
                                    Deref(response.Error).Code,
                                    Deref(response.Error).Message,
                                    Deref(response.Error).Data),
                   inv |-> inv]
             ELSE [ret |-> Unmarshal(inv, response).err,
                   inv |-> Unmarshal(inv, response).inv]

\* InvokeBatch's responseMap: for every response with a non-nil ID, in the
\* order of the responses, responseMap[resp.ID.String()] = resp.
ResponseKeys(resps) ==
    {String(Deref(resps[j].ID)) : j \in {k \in 1..Len(resps) : resps[k].ID # NilP}}

LastWithKey(resps, key) ==
    CHOOSE j \in 1..Len(resps) :
        /\ resps[j].ID # NilP
        /\ String(Deref(resps[j].ID)) = key
        /\ \A k \in 1..Len(resps) :
               (resps[k].ID # NilP /\ String(Deref(resps[k].ID)) = key) => k <= j

ResponseMap(resps) ==
    [key \in ResponseKeys(resps) |-> resps[LastWithKey(resps, key)]]

\* A loop that goes on to the requests after the one that fails and returns
\* the first failure at the end.
RECURSIVE ProcessFromKeepGoing(_, _, _, _)
ProcessFromKeepGoing(i, is, reqs, responseMap) ==
    IF i > Len(is) THEN [ret |-> ErrNil, invs |-> is]
    ELSE IF reqs[i].ID = NilP THEN ProcessFromKeepGoing(i + 1, is, reqs, responseMap)
    ELSE IF String(Deref(reqs[i].ID)) \notin DOMAIN responseMap
    THEN [ret |-> MissingResponseError(reqs[i].Method),
          invs |-> ProcessFromKeepGoing(i + 1, is, reqs, responseMap).invs]
    ELSE LET resp == responseMap[String(Deref(reqs[i].ID))]
             u == Unmarshal(is[i], resp)
             rest == ProcessFromKeepGoing(i + 1, is, reqs, responseMap)
             restDecoded == ProcessFromKeepGoing(i + 1, [is EXCEPT ![i] = u.inv],
                                                 reqs, responseMap)
         IN  IF resp.Error # NilP
             THEN [ret |-> RPCError(reqs[i].Method,
                                    Deref(resp.Error).Code,
                                    Deref(resp.Error).Message,
                                    Deref(resp.Error).Data),
                   invs |-> rest.invs]
             ELSE IF u.err # ErrNil
             THEN [ret |-> u.err, invs |-> restDecoded.invs]
             ELSE restDecoded

\* InvokeBatch's loop over the requests, from position i on.
RECURSIVE ProcessFrom(_, _, _, _)
ProcessFrom(i, is, reqs, responseMap) ==
    IF i > Len(is) THEN [ret |-> ErrNil, invs |-> is]
    ELSE IF reqs[i].ID = NilP THEN ProcessFrom(i + 1, is, reqs, responseMap)
    ELSE IF String(Deref(reqs[i].ID)) \notin DOMAIN responseMap
    THEN [ret |-> MissingResponseError(reqs[i].Method), invs |-> is]
    ELSE LET resp == responseMap[String(Deref(reqs[i].ID))]
             u == Unmarshal(is[i], resp)
         IN  IF resp.Error # NilP
             THEN [ret |-> RPCError(reqs[i].Method,
                                    Deref(resp.Error).Code,
                                    Deref(resp.Error).Message,
                                    Deref(resp.Error).Data),
                   invs |-> is]
             ELSE IF u.err # ErrNil
             THEN [ret |-> u.err, invs |-> [is EXCEPT ![i] = u.inv]]
             ELSE ProcessFrom(i + 1, [is EXCEPT ![i] = u.inv], reqs, responseMap)

\* An InvokeBatch that takes a nil output for an output without responses.
InvokeBatchOutcomeNilAsEmpty(is, reqs, out) ==
    IF out.err # "" THEN [ret |-> TransportError(out.err), invs |-> is]
    ELSE ProcessFrom(1, is, reqs, ResponseMap(out.Responses))

\* InvokeBatch after SendRequest has returned.
InvokeBatchOutcome(is, reqs, out) ==
    IF out.err # "" THEN [ret |-> TransportError(out.err), invs |-> is]
    ELSE IF out.isNil
    THEN [ret |-> EmptyResponseError(reqs[1].Method), invs |-> is]
    ELSE ProcessFrom(1, is, reqs, ResponseMap(out.Responses))

\* An Invoke that calls SendRequest once more when the transport has failed.
InvokeReturnRetrying(p) ==
    LET o == InvokeOutcome(invs[p][1], requests[p][1], output[p])
        again == output[p].err # "" /\ sends[p] < 2
    IN  /\ pc[p] = "recv"
        /\ kind[p] = "Invoke"
        /\ ret' = [ret EXCEPT ![p] = IF again THEN ErrNil ELSE o.ret]
        /\ invs' = [invs EXCEPT ![p] = <<o.inv>>]
        /\ pc' = [pc EXCEPT ![p] = IF again THEN "send" ELSE "done"]
        /\ UNCHANGED <<idVars, genVars, kind, requests, genIdx, output, sends,
                       calls, since>>

\* Invoke handles the output and returns.
InvokeReturn(p) ==
    LET o == InvokeOutcome(invs[p][1], requests[p][1], output[p])
    IN  /\ pc[p] = "recv"
        /\ kind[p] = "Invoke"
        /\ ret' = [ret EXCEPT ![p] = o.ret]
        /\ invs' = [invs EXCEPT ![p] = <<o.inv>>]
        /\ pc' = [pc EXCEPT ![p] = "done"]
        /\ UNCHANGED <<idVars, genVars, kind, requests, genIdx, output, sends,
                       calls, since>>

\* InvokeBatch handles the output and returns.
InvokeBatchReturn(p) ==
    LET o == InvokeBatchOutcome(invs[p], requests[p], output[p])
    IN  /\ pc[p] = "recv"
        /\ kind[p] = "InvokeBatch"
        /\ ret' = [ret EXCEPT ![p] = o.ret]
        /\ invs' = [invs EXCEPT ![p] = o.invs]
        /\ pc' = [pc EXCEPT ![p] = "done"]
        /\ UNCHANGED <<idVars, genVars, kind, requests, genIdx, output, sends,
                       calls, since>>

\* The caller takes the result and is free to call again: nothing of the
\* finished call is kept but the count of the calls made.
Finish(p) ==
    /\ pc[p] = "done"
    /\ calls[p] < MaxCalls
    /\ pc' = [pc EXCEPT ![p] = "idle"]
    /\ kind' = [kind EXCEPT ![p] = ""]
    /\ invs' = [invs EXCEPT ![p] = <<>>]
    /\ requests' = [requests EXCEPT ![p] = <<>>]
    /\ genIdx' = [genIdx EXCEPT ![p] = {}]
    /\ output' = [output EXCEPT ![p] = NoOutput]
    /\ ret' = [ret EXCEPT ![p] = ErrNil]
    /\ sends' = [sends EXCEPT ![p] = 0]
    /\ since' = [since EXCEPT ![p] = 0]
    /\ UNCHANGED <<idVars, genVars, calls>>

\* The caller hands the descriptors of the call that has returned, as the
\* call left them, to the same method again.
Resubmit(p) ==
    /\ pc[p] = "done"
    /\ calls[p] < MaxCalls
    /\ kind[p] \in {"Invoke", "InvokeBatch"}
    /\ Len(invs[p]) > 0
    /\ Start(p, kind[p], invs[p])
    /\ UNCHANGED <<idVars, genVars>>

\* d.Unmarshal(resp) called on its own, as the tests of Unmarshal do.
CallUnmarshal(p, d, resp) ==
    /\ pc[p] = "idle"
    /\ calls[p] < MaxCalls
    /\ kind' = [kind EXCEPT ![p] = "Unmarshal"]
    /\ invs' = [invs EXCEPT ![p] = <<d>>]
    /\ output' = [output EXCEPT ![p] = OutputOf("", FALSE, <<resp>>)]
    /\ calls' = [calls EXCEPT ![p] = calls[p] + 1]
    /\ pc' = [pc EXCEPT ![p] = "recv"]
    /\ UNCHANGED <<idVars, genVars, requests, genIdx, ret, sends, since>>

\* Unmarshal returns.
UnmarshalReturn(p) ==
    LET u == Unmarshal(invs[p][1], output[p].Responses[1])
    IN  /\ pc[p] = "recv"
        /\ kind[p] = "Unmarshal"
        /\ ret' = [ret EXCEPT ![p] = u.err]
        /\ invs' = [invs EXCEPT ![p] = <<u.inv>>]
        /\ pc' = [pc EXCEPT ![p] = "done"]
        /\ UNCHANGED <<idVars, genVars, kind, requests, genIdx, output, sends,
                       calls, since>>

\* Callers other than the ones followed here make MaxInt32 - 1 - seq calls in
\* a row, each drawing one id and returning, while the calls followed here
\* stay where they are: the sequence reaches MaxInt32 - 1.  The record of
\* the ids handed out starts afresh.
SequenceAdvance ==
    /\ ~advanced
    /\ mu = 0
    /\ seq >= 0
    /\ seq < MaxInt32 - 1
    /\ \E p \in Callers : pc[p] = "transport"
    /\ seq' = MaxInt32 - 1
    /\ since' = [q \in Callers |->
                    IF InProgress(q) /\ genIdx[q] # {}
                    THEN SatAdd(since[q], MaxInt32 - 1 - seq) ELSE since[q]]
    /\ advanced' = TRUE
    /\ drawn' = <<>>
    /\ UNCHANGED <<idVars, intSize, mu, pc, kind, invs, requests, genIdx, output,
                   ret, sends, calls>>

-----------------------------------------------------------------------------
(* The callers' inputs and the transport's outputs *)

\* The error payloads a response may carry.
InvalidRequestPayload == JSONRPCErrorOf(-32600, "Invalid Request", NilP)
MethodNotFoundPayload == JSONRPCErrorOf(-32601, "Method not found", Ptr("detail"))

\* The result of the response at position j that parses into an int slot.
ValidResult(j) == Ptr(MarshalInt(100 + j))

\* -- Invoke: one descriptor, any id, payload and slot type; a first response
\* of any shape, followed by responses that carry a result or an error.
InvokeIDs == {NilP, Ptr(ZeroID), Ptr(NewIDInt(1)), Ptr(NewIDString("1"))}

InvokeDescs ==
    {InvokeOf(id, name, request, tout, 0) :
        id \in InvokeIDs, name \in {Methods[1], Methods[2]},
        request \in {Omit, "p1"}, tout \in {"int", "Omit"}}

FirstResponses ==
    {JSONRPCResponseOf(id, result, error) :
        id \in {NilP, Ptr(NewIDInt(1)), Ptr(NewIDInt(2))},
        result \in {NilP, Ptr("null"), ValidResult(1), Ptr("\"x\""), Ptr("{}")},
        error \in {NilP, Ptr(InvalidRequestPayload), Ptr(MethodNotFoundPayload)}}

LaterResponses(j) ==
    {JSONRPCResponseOf(Ptr(NewIDInt(1)), ValidResult(j), NilP),
     JSONRPCResponseOf(Ptr(NewIDInt(1)), NilP, Ptr(MethodNotFoundPayload))}

RECURSIVE InvokeResponseSeqs(_)
InvokeResponseSeqs(n) ==
    IF n = 0 THEN {<<>>}
    ELSE InvokeResponseSeqs(n - 1) \cup
         {Append(rs, r) :
             rs \in {x \in InvokeResponseSeqs(n - 1) : Len(x) = n - 1},
             r \in IF n = 1 THEN FirstResponses ELSE LaterResponses(n)}

TransportErrors == {"connection refused", "context canceled"}

\* SendRequest fails: it returns an error with a nil output, or with an
\* output that holds a response all the same.
FailedOutputs ==
    {OutputOf(e, TRUE, <<>>) : e \in TransportErrors}
        \cup {OutputOf("context canceled", FALSE,
                       <<JSONRPCResponseOf(Ptr(NewIDInt(1)), ValidResult(1), NilP)>>)}

InvokeOutputs ==
    FailedOutputs \cup {NoOutput}
        \cup {OutputOf("", FALSE, rs) : rs \in InvokeResponseSeqs(MaxResponses)}

\* -- InvokeBatch alone: up to MaxBatch descriptors with an int slot, the
\* descriptor at position i calling Methods[i] with no id or a chosen one; up
\* to MaxResponses responses, each with any of the ids and a result that
\* parses, no result, a result that does not parse, or an error.
BatchIDs == {NilP, Ptr(NewIDInt(1)), Ptr(NewIDString("1")), Ptr(NewIDInt(2))}

\* A descriptor may also carry an IDValue with neither variant set, which
\* leaves the request without an id member on the wire.
BatchDescIDs == BatchIDs \cup {Ptr(ZeroID)}

RECURSIVE BatchDescs(_)
BatchDescs(n) ==
    IF n = 0 THEN {<<>>}
    ELSE BatchDescs(n - 1) \cup
         {Append(ds, InvokeOf(id, Methods[n], "p1", "int", 0)) :
             ds \in {x \in BatchDescs(n - 1) : Len(x) = n - 1}, id \in BatchDescIDs}

BatchResponsesAt(j) ==
    {JSONRPCResponseOf(id, body[1], body[2]) :
        id \in BatchIDs,
        body \in {<<ValidResult(j), NilP>>, <<NilP, NilP>>, <<Ptr("\"x\""), NilP>>,
                  <<NilP, Ptr(InvalidRequestPayload)>>}}

RECURSIVE BatchResponseSeqs(_)
BatchResponseSeqs(n) ==
    IF n = 0 THEN {<<>>}
    ELSE BatchResponseSeqs(n - 1) \cup
         {Append(rs, r) :
             rs \in {x \in BatchResponseSeqs(n - 1) : Len(x) = n - 1},
             r \in BatchResponsesAt(n)}

BatchOutputs ==
    FailedOutputs \cup {NoOutput}
        \cup {OutputOf("", FALSE, rs) : rs \in BatchResponseSeqs(MaxResponses)}

\* -- Concurrent callers: descriptors without an id, and a transport that
\* fails or answers every request in order.
PlainDesc(i) == InvokeOf(NilP, Methods[i], "p1", "int", 0)

PlainBatches == {[i \in 1..n |-> PlainDesc(i)] : n \in 1..MaxBatch}

EchoOutput(reqs) ==
    OutputOf("", FALSE,
             [j \in 1..Len(reqs) |-> JSONRPCResponseOf(reqs[j].ID, ValidResult(j), NilP)])

EchoOutputs(p) == {OutputOf("connection refused", TRUE, <<>>), EchoOutput(requests[p])}

-----------------------------------------------------------------------------
(* Specifications *)

\* The state after NewClient(transport): no identifier operation applied, a
\* fresh generator, every caller idle.
Init ==
    /\ ids = [k \in Slots |-> ZeroID]
    /\ lastOp = "init"
    /\ opSlot = 1
    /\ wire = ""
    /\ unmErr = FALSE
    /\ eq = FALSE
    /\ panicked = FALSE
    /\ objWire = NoObject
    /\ intSize \in IntSizes
    /\ seq = 0
    /\ mu = 0
    /\ drawn = <<>>
    /\ advanced = FALSE
    /\ pc = [p \in Callers |-> "idle"]
    /\ kind = [p \in Callers |-> ""]
    /\ invs = [p \in Callers |-> <<>>]
    /\ requests = [p \in Callers |-> <<>>]
    /\ genIdx = [p \in Callers |-> {}]
    /\ output = [p \in Callers |-> NoOutput]
    /\ ret = [p \in Callers |-> ErrNil]
    /\ sends = [p \in Callers |-> 0]
    /\ calls = [p \in Callers |-> 0]
    /\ since = [p \in Callers |-> 0]

\* The identifier on its own.
SpecID == Init /\ [][IdNext]_vars

\* One caller making one Invoke call.
InvokeNext ==
    \/ \E d \in InvokeDescs : Invoke(1, d)
    \/ GenLock(1)
    \/ GenIncrement(1)
    \/ GenReturn(1)
    \/ SendRequest(1)
    \/ \E out \in InvokeOutputs : TransportReturn(1, out)
    \/ InvokeReturn(1)

SpecInvoke == Init /\ [][InvokeNext]_vars

\* One caller making one InvokeBatch call.
BatchNext ==
    \/ \E ds \in BatchDescs(MaxBatch) : InvokeBatch(1, ds)
    \/ GenLock(1)
    \/ GenIncrement(1)
    \/ GenReturn(1)
    \/ SendRequest(1)
    \/ \E out \in BatchOutputs : TransportReturn(1, out)
    \/ \E out \in BatchOutputs : \E strip \in SUBSET (1..MaxBatch) :
           TransportStripsIDs(1, out, strip)
    \/ InvokeBatchReturn(1)

SpecBatch == Init /\ [][BatchNext]_vars

\* Unmarshal on its own: any descriptor, with a slot that holds 0 or 7, and
\* any response.
UnmarshalDescs ==
    {InvokeOf(id, Methods[1], request, tout, slot) :
        id \in {NilP, Ptr(NewIDInt(1))}, request \in {Omit, "p1"},
        tout \in {"int", "Omit"}, slot \in {0, 7}}

UnmarshalNext ==
    \/ \E d \in UnmarshalDescs, resp \in FirstResponses : CallUnmarshal(1, d, resp)
    \/ UnmarshalReturn(1)

SpecUnmarshal == Init /\ [][UnmarshalNext]_vars

\* One caller making one call, Invoke or InvokeBatch.
CallOutputs(p) == IF kind[p] = "Invoke" THEN InvokeOutputs ELSE BatchOutputs

CallNext ==
    \/ \E d \in InvokeDescs : Invoke(1, d)
    \/ \E ds \in BatchDescs(MaxBatch) : InvokeBatch(1, ds)
    \/ GenLock(1)
    \/ GenIncrement(1)
    \/ GenReturn(1)
    \/ SendRequest(1)
    \/ \E out \in CallOutputs(1) : TransportReturn(1, out)
    \/ InvokeReturn(1)
    \/ InvokeBatchReturn(1)

SpecCall == Init /\ [][CallNext]_vars

\* The same, with a caller that goes on running: every step of the call that
\* is the Client's own is taken in the end.  Whether and when SendRequest
\* returns is up to the transport.
SpecCallFair ==
    /\ SpecCall
    /\ WF_vars(GenLock(1))
    /\ WF_vars(GenIncrement(1))
    /\ WF_vars(GenReturn(1))
    /\ WF_vars(SendRequest(1))
    /\ WF_vars(InvokeReturn(1))
    /\ WF_vars(InvokeBatchReturn(1))

\* One caller that calls Invoke or InvokeBatch and then calls again with the
\* same descriptors: each descriptor has no id or the id "1", and the
\* transport fails, returns nothing or answers every request in order.
RECURSIVE ResubmitDescs(_)
ResubmitDescs(n) ==
    IF n = 0 THEN {<<>>}
    ELSE ResubmitDescs(n - 1) \cup
         {Append(ds, InvokeOf(id, Methods[n], request, "int", 0)) :
             ds \in {x \in ResubmitDescs(n - 1) : Len(x) = n - 1},
             id \in {NilP, Ptr(NewIDString("1"))}, request \in {Omit, "p1"}}

ResubmitOutputs(p) == EchoOutputs(p) \cup {NoOutput}

ResubmitNext ==
    \/ \E ds \in ResubmitDescs(1) \ {<<>>} : Invoke(1, ds[1])
    \/ \E ds \in ResubmitDescs(MaxBatch) : InvokeBatch(1, ds)
    \/ GenLock(1)
    \/ GenIncrement(1)
    \/ GenReturn(1)
    \/ SendRequest(1)
    \/ \E out \in ResubmitOutputs(1) : TransportReturn(1, out)
    \/ InvokeReturn(1)
    \/ InvokeBatchReturn(1)
    \/ Resubmit(1)

SpecResubmit == Init /\ [][ResubmitNext]_vars

\* Concurrent callers sharing one Client.
ClientNext ==
    \/ \E p \in Callers : Invoke(p, PlainDesc(1))
    \/ \E p \in Callers, ds \in PlainBatches : InvokeBatch(p, ds)
    \/ \E p \in Callers : GenLock(p)
    \/ \E p \in Callers : GenIncrement(p)
    \/ \E p \in Callers : GenReturn(p)
    \/ \E p \in Callers : SendRequest(p)
    \/ \E p \in Callers : \E out \in EchoOutputs(p) : TransportReturn(p, out)
    \/ \E p \in Callers : InvokeReturn(p)
    \/ \E p \in Callers : InvokeBatchReturn(p)
    \/ \E p \in Callers : Finish(p)
    \/ SequenceAdvance

SpecClient == Init /\ [][ClientNext]_vars

-----------------------------------------------------------------------------
(* Properties of the identifier, checked under SpecID *)

\* The variant an identifier reports through Value, String and MarshalJSON:
\* "string", "int" or, with neither set, "nil".
Variant(i) == Value(i).type

Subject == ids[opSlot]
Partner == ids[OtherSlot(opSlot)]

\* C5: after any sequence of NewID, New and UnmarshalJSON applied to an
\* identifier, at most one of strVar and intVar is set.
C5_AtMostOneVariantSet ==
    \A k \in Slots : ~(ids[k].strVar # NilP /\ ids[k].intVar # NilP)

\* C6: decoding the JSON value null leaves the identifier in a state that is
\* not absent (IsZero is false), whereas a freshly created identifier is
\* absent.
C6_DecodedNullIsNotAbsent ==
    /\ (lastOp = "UnmarshalJSON" /\ wire = "null") =>
           (~unmErr /\ ~IsZero(Subject))
    /\ lastOp = "New" => IsZero(Subject)

C8_EqualIffSameVariantAndValue ==
    lastOp = "Equal" =>
        /\ eq <=> (Variant(Subject) \in {"string", "int"}
                     /\ Value(Subject) = Value(Partner))
        /\ eq <=> Equal(Partner, Subject)

\* C9: an absent identifier encodes as null on its own, a request whose id is
\* absent is encoded without an id member, and a request with a string or
\* integer id has exactly that string or integer as its id member.
C9_RequestIDMember ==
    /\ (lastOp = "MarshalJSON" /\ IsZero(Subject)) => wire = "null"
    /\ lastOp = "MarshalRequestNilID" => objWire.id = NilP
    /\ (lastOp = "MarshalRequest" /\ IsZero(Subject)) => objWire.id = NilP
    /\ (lastOp = "MarshalRequest" /\ Variant(Subject) = "string") =>
           /\ objWire.id # NilP
           /\ IsJSONString(Deref(objWire.id))
           /\ UnquoteJSON(Deref(objWire.id)) = Value(Subject).str
    /\ (lastOp = "MarshalRequest" /\ Variant(Subject) = "int") =>
           /\ objWire.id # NilP
           /\ IsJSONInt(Deref(objWire.id))
           /\ ParseInt(Deref(objWire.id)) = Value(Subject).num

C9_Witness ==
    /\ lastOp = "MarshalRequest"
    /\ wire = ""
    /\ Subject = ZeroID
    /\ objWire.id = NilP
    /\ objWire.method = Ptr("\"foo\"")

-----------------------------------------------------------------------------
(* Claims about Client.Invoke and Client.InvokeBatch *)

\* The call of caller p has returned.
Returned(p, k) == pc[p] = "done" /\ kind[p] = k

\* The transport succeeded and returned at least one response.
HasResponses(out) == out.err = "" /\ ~out.isNil /\ Len(out.Responses) > 0

\* The ids of the requests are pairwise distinct: no two requests have ids of
\* the same variant and value.
PairwiseDistinctIDs(reqs) ==
    \A i, j \in 1..Len(reqs) :
        i # j => (reqs[i].ID # NilP /\ reqs[j].ID # NilP
                  /\ ~IsZero(Deref(reqs[i].ID))
                  /\ ~Equal(Deref(reqs[i].ID), Deref(reqs[j].ID)))

\* The response at position j answers the request req: it carries the
\* request's id.
Answers(resp, req) ==
    resp.ID # NilP /\ req.ID # NilP /\ Equal(Deref(resp.ID), Deref(req.ID))

\* The output holds one error-free response per request, in some order, the
\* response at position j with a result that parses to 100 + j.
OnePerRequest(reqs, out) ==
    /\ HasResponses(out)
    /\ Len(out.Responses) = Len(reqs)
    /\ \A j \in 1..Len(out.Responses) :
           /\ out.Responses[j].Error = NilP
           /\ out.Responses[j].Result = ValidResult(j)
    /\ \A i \in 1..Len(reqs) :
           \E j \in 1..Len(out.Responses) : Answers(out.Responses[j], reqs[i])
    /\ \A j \in 1..Len(out.Responses) :
           \E i \in 1..Len(reqs) : Answers(out.Responses[j], reqs[i])

\* C1: when the requests of an InvokeBatch call have pairwise-distinct ids and
\* the transport returns one error-free response per request, in any order,
\* the call returns nil and the slot of every descriptor holds the result of
\* the response that carries its request's id, not the result at its position.
C1_BatchCorrelatesByID ==
    (Returned(1, "InvokeBatch") /\ Len(requests[1]) > 0
        /\ PairwiseDistinctIDs(requests[1])
        /\ OnePerRequest(requests[1], output[1]))
    => /\ ret[1] = ErrNil
       /\ \A i \in 1..Len(requests[1]) : \A j \in 1..Len(output[1].Responses) :
              Answers(output[1].Responses[j], requests[1][i])
                  => invs[1][i].Response = 100 + j

\* C10: whenever the first response returned to Invoke carries an error
\* payload, Invoke returns an RPCError with the request's method and the
\* payload's code, message and data and leaves the descriptor as it was,
\* also when the response carries a result and when the payload is Omit.
C10_ErrorPayloadGivesRPCError ==
    [][(pc[1] = "recv" /\ kind[1] = "Invoke" /\ pc'[1] = "done"
            /\ HasResponses(output[1]) /\ output[1].Responses[1].Error # NilP)
       => /\ ret'[1] = RPCError(requests[1][1].Method,
                                Deref(output[1].Responses[1].Error).Code,
                                Deref(output[1].Responses[1].Error).Message,
                                Deref(output[1].Responses[1].Error).Data)
          /\ requests[1][1].Method = invs[1][1].Name
          /\ invs'[1] = invs[1]]_vars

\* Invoke has returned an RPCError for a response that carried both an error
\* payload with data and a result that parses into the slot; the slot is 0.
C10_Witness ==
    /\ Returned(1, "Invoke")
    /\ invs[1] = <<InvokeOf(NilP, Methods[1], "p1", "int", 0)>>
    /\ output[1] = OutputOf("", FALSE,
                     <<JSONRPCResponseOf(Ptr(NewIDInt(1)), ValidResult(1),
                                         Ptr(MethodNotFoundPayload))>>)
    /\ ret[1] = RPCError(Methods[1], -32601, "Method not found", Ptr("detail"))

-----------------------------------------------------------------------------
(* Claims about the sequence id generator *)

\* Two different callers whose calls are in progress at the same time.
Concurrent(p, q) == p # q /\ InProgress(p) /\ InProgress(q)

\* C2 as stated: two calls in progress at the same time never hold the same
\* generated id, however many ids were drawn before or during the calls.
C2_InProgressCallsNeverShareID ==
    \A p, q \in Callers : Concurrent(p, q) => HeldIDs(p) \cap HeldIDs(q) = {}

\* C2: two calls in progress at the same time hold no generated id in
\* common, provided fewer than MaxInt32 ids have been drawn since each of
\* them drew its first id; this covers the wrap after MaxInt32.
C2_InProgressCallsShareNoIDWithinPeriod ==
    \A p, q \in Callers :
        (Concurrent(p, q) /\ since[p] < MaxInt32 /\ since[q] < MaxInt32)
            => HeldIDs(p) \cap HeldIDs(q) = {}

\* One call has held the id 1 while MaxInt32 - 1 further ids were drawn, the
\* last of them MaxInt32 for a batch of a concurrent call that is about to
\* draw its second id.
C2_Witness ==
    /\ pc[1] = "transport" /\ HeldIDs(1) = {NewIDInt(1)} /\ since[1] = MaxInt32 - 1
    /\ pc[2] = "incr" /\ HeldIDs(2) = {NewIDInt(MaxInt32)} /\ Len(requests[2]) = 2
    /\ seq = MaxInt32

\* The ids handed out while the followed calls stood still (SequenceAdvance):
\* with the ids drawn before, 1 .. MaxInt32 - 1.
DrawnInAdvance(n) == advanced /\ 1 <= n /\ n <= MaxInt32 - 1

\* C3: as long as no more than MaxInt32 ids have been drawn in all, by any
\* number of concurrent callers drawing any number of ids each, the ids drawn
\* are pairwise distinct.
C3_DrawnIDsPairwiseDistinct ==
    (~advanced \/ Len(drawn) <= 1)
        => /\ \A j, k \in 1..Len(drawn) : j # k => drawn[j] # drawn[k]
           /\ \A k \in 1..Len(drawn) : ~DrawnInAdvance(drawn[k])

\* Two concurrent batch calls have drawn two ids each, in turn.
C3_Witness ==
    /\ ~advanced
    /\ Len(drawn) = 4
    /\ InProgress(1) /\ InProgress(2)
    /\ HeldIDs(1) = {NewIDInt(1), NewIDInt(3)}
    /\ HeldIDs(2) = {NewIDInt(2), NewIDInt(4)}

\* C4: the k-th id generated on a fresh Client is k, for every k up to
\* MaxInt32, and the id generated next after MaxInt32 is 1.
C4_KthIDIsKThenWrapsToOne ==
    /\ ~advanced => \A k \in 1..Len(drawn) : drawn[k] = k
    /\ (advanced /\ Len(drawn) >= 1) => drawn[1] = MaxInt32
    /\ \A k \in 1..Len(drawn) :
           (drawn[k] = MaxInt32 /\ k < Len(drawn)) => drawn[k + 1] = 1

-----------------------------------------------------------------------------
(* Claims about notifications and failures in InvokeBatch *)

\* The request is a notification: it has no id member on the wire.
Notification(req) == OmitZero(req.ID)

\* The texts of the ids of the requests that are not notifications are
\* pairwise distinct.
DistinctIDTexts(reqs) ==
    \A i, j \in 1..Len(reqs) :
        (i # j /\ ~Notification(reqs[i]) /\ ~Notification(reqs[j]))
            => String(Deref(reqs[i].ID)) # String(Deref(reqs[j].ID))

\* The transport succeeded and returned responses for the requests that are
\* not notifications only: exactly one error-free response for each of them, the
\* response at position j with a result that parses to 100 + j.
AnswersAllButNotifications(reqs, out) ==
    /\ out.err = "" /\ ~out.isNil
    /\ \A j \in 1..Len(out.Responses) :
           /\ out.Responses[j].Error = NilP
           /\ out.Responses[j].Result = ValidResult(j)
           /\ \E i \in 1..Len(reqs) :
                  ~Notification(reqs[i]) /\ Answers(out.Responses[j], reqs[i])
    /\ \A i \in 1..Len(reqs) :
           ~Notification(reqs[i])
               => \E j \in 1..Len(out.Responses) :
                      /\ Answers(out.Responses[j], reqs[i])
                      /\ \A k \in 1..Len(out.Responses) :
                             Answers(out.Responses[k], reqs[i]) => k = j

\* C11: when a request of an InvokeBatch call is a notification and the
\* transport returns responses for the other requests only, the call returns
\* nil, the slot of the notification's descriptor is unchanged and the other
\* descriptors are decoded from their responses.
C11_NotificationExpectsNoResponse ==
    (Returned(1, "InvokeBatch") /\ Len(requests[1]) > 0
        /\ (\E i \in 1..Len(requests[1]) : Notification(requests[1][i]))
        /\ DistinctIDTexts(requests[1])
        /\ AnswersAllButNotifications(requests[1], output[1]))
    => /\ ret[1] = ErrNil
       /\ \A i \in 1..Len(requests[1]) :
              IF Notification(requests[1][i])
              THEN invs[1][i].Response = 0
              ELSE \A j \in 1..Len(output[1].Responses) :
                       Answers(output[1].Responses[j], requests[1][i])
                           => invs[1][i].Response = 100 + j

\* The transport succeeded and returned an output.
Succeeded(out) == out.err = "" /\ ~out.isNil

\* No response carries the id of the request, which is not a notification.
Missing(req, out) ==
    /\ ~Notification(req)
    /\ ~\E j \in 1..Len(out.Responses) : Answers(out.Responses[j], req)

\* The last of the responses that carry the id of the request.
LastAnswer(req, out) ==
    out.Responses[CHOOSE j \in 1..Len(out.Responses) :
                      /\ Answers(out.Responses[j], req)
                      /\ \A k \in 1..Len(out.Responses) :
                             Answers(out.Responses[k], req) => k <= j]

\* The descriptor d with request req cannot be completed from the output: it
\* has no response, or its response carries an error or does not decode.
CannotComplete(d, req, out) ==
    /\ ~Notification(req)
    /\ \/ Missing(req, out)
       \/ LastAnswer(req, out).Error # NilP
       \/ Unmarshal(d, LastAnswer(req, out)).err # ErrNil

\* C12: when the first request, in request order, that cannot be completed
\* has no response carrying its id, InvokeBatch returns a
\* MissingResponseError naming the method of that request, wherever the
\* responses of the other requests stand in the output.
C12_FirstMissingResponseIsNamed ==
    (Returned(1, "InvokeBatch") /\ Len(requests[1]) > 0 /\ Succeeded(output[1]))
    => \A i \in 1..Len(requests[1]) :
           (/\ Missing(requests[1][i], output[1])
            /\ \A k \in 1..(i - 1) :
                   ~CannotComplete(invs[1][k], requests[1][k], output[1]))
               => ret[1] = MissingResponseError(requests[1][i].Method)

\* The kinds of failure InvokeBatch returns for one descriptor.
DescriptorFailures ==
    {"MissingResponseError", "RPCError", "EmptyResultError", "UnmarshalError"}

\* The error names the request at position k: the methods of the requests of
\* a batch differ from one another.
FailsAt(err, reqs, k) == err.type \in DescriptorFailures /\ err.Method = reqs[k].Method

\* The slot holds the result of one of the error-free responses returned.
HoldsReturnedResult(d, out) ==
    \E j \in 1..Len(out.Responses) :
        /\ out.Responses[j].Error = NilP
        /\ out.Responses[j].Result = ValidResult(j)
        /\ d.Response = 100 + j

\* C13: when InvokeBatch fails at the descriptor at position k, every
\* descriptor before k has been decoded and keeps its result, unless its
\* request has no id, and every descriptor after k is as it was before the
\* responses were processed, whatever responses were returned for it.
C13_FailureKeepsEarlierAndSkipsLater ==
    [][(pc[1] = "recv" /\ kind[1] = "InvokeBatch" /\ pc'[1] = "done")
       => \A k \in 1..Len(requests[1]) :
              FailsAt(ret'[1], requests[1], k)
                  => /\ \A i \in 1..(k - 1) :
                            IF requests[1][i].ID = NilP
                            THEN invs'[1][i] = invs[1][i]
                            ELSE HoldsReturnedResult(invs'[1][i], output[1])
                     /\ \A i \in (k + 1)..Len(requests[1]) :
                            invs'[1][i] = invs[1][i]]_vars

\* InvokeBatch has failed with an RPCError at the second of two descriptors,
\* after the first was decoded from the second response; the first keeps 102.
C13_Witness ==
    /\ Returned(1, "InvokeBatch")
    /\ Len(requests[1]) = 2
    /\ ret[1] = RPCError(Methods[2], -32600, "Invalid Request", NilP)
    /\ Len(output[1].Responses) = 2
    /\ output[1].Responses[2].Result = ValidResult(2)
    /\ Answers(output[1].Responses[2], requests[1][1])
    /\ invs[1][1].Response = 102
    /\ invs[1][2].Response = 0

\* C14: InvokeBatch on an empty list of descriptors returns an
\* InvalidRequestError at once: SendRequest is not called and no id is drawn
\* from the generator.
C14_EmptyBatchIsRefused ==
    (kind[1] = "InvokeBatch" /\ pc[1] # "idle" /\ Len(invs[1]) = 0)
    => /\ pc[1] = "done"
       /\ ret[1] = InvalidRequestError("no requests provided")
       /\ sends[1] = 0
       /\ seq = 0 /\ drawn = <<>> /\ mu = 0

\* InvokeBatch has returned for an empty list.
C14_Witness ==
    /\ Returned(1, "InvokeBatch")
    /\ invs[1] = <<>>
    /\ ret[1].type = "InvalidRequestError"
    /\ sends[1] = 0

-----------------------------------------------------------------------------
(* Claims about the failures of the transport *)

\* Invoke or InvokeBatch returns to caller 1 in this step.
Returns == pc[1] = "recv" /\ pc'[1] = "done"

\* C15: when SendRequest returns an error, Invoke and InvokeBatch return
\* that very error, neither wrapped nor replaced, and leave every descriptor
\* as it was, whatever output came with the error.
C15_TransportErrorIsReturnedAsIs ==
    [][(Returns /\ output[1].err # "")
       => /\ ret'[1] = TransportError(output[1].err)
          /\ invs'[1] = invs[1]]_vars

\* InvokeBatch has returned the error of a transport that also handed back a
\* response for the request; the slot is still 0.
C15_Witness ==
    /\ Returned(1, "InvokeBatch")
    /\ Len(requests[1]) = 1
    /\ requests[1][1].ID = Ptr(NewIDInt(1))
    /\ output[1] = OutputOf("context canceled", FALSE,
                     <<JSONRPCResponseOf(Ptr(NewIDInt(1)), ValidResult(1), NilP)>>)
    /\ ret[1] = TransportError("context canceled")
    /\ invs[1][1].Response = 0

\* C16: when SendRequest succeeds with a nil output or an output without
\* responses, Invoke returns an EmptyResponseError naming the method of the
\* request; when it succeeds with a nil output, InvokeBatch returns an
\* EmptyResponseError naming the method of the first request; the descriptors
\* are left as they were.
C16_NoOutputGivesEmptyResponse ==
    [][(/\ Returns
        /\ output[1].err = ""
        /\ \/ kind[1] = "Invoke"
                /\ (output[1].isNil \/ Len(output[1].Responses) = 0)
           \/ kind[1] = "InvokeBatch" /\ output[1].isNil)
       => /\ ret'[1] = EmptyResponseError(requests[1][1].Method)
          /\ invs'[1] = invs[1]]_vars

\* InvokeBatch has returned for two requests after the transport returned a
\* nil output and a nil error.
C16_Witness ==
    /\ Returned(1, "InvokeBatch")
    /\ Len(requests[1]) = 2
    /\ output[1] = NoOutput
    /\ ret[1] = EmptyResponseError(Methods[1])

\* C17: when SendRequest succeeds for InvokeBatch with a nil output or with an
\* output that holds no responses, the call returns an EmptyResponseError.
C17_NoResponsesGiveEmptyResponse ==
    (Returned(1, "InvokeBatch") /\ Len(requests[1]) > 0
        /\ output[1].err = ""
        /\ (output[1].isNil \/ Len(output[1].Responses) = 0))
    => ret[1].type = "EmptyResponseError"

-----------------------------------------------------------------------------
(* Claims about the descriptor *)

\* Unmarshal returns in this step: d is the descriptor before, resp the
\* response.
UnmarshalReturns(d, resp) ==
    /\ pc[1] = "recv" /\ kind[1] = "Unmarshal" /\ pc'[1] = "done"
    /\ d = invs[1][1]
    /\ resp = output[1].Responses[1]

\* The result parses into a slot of type tout.
Parses(tout, result) ==
    \/ tout = "int" /\ result \in {MarshalInt(n) : n \in ResultInts}
    \/ tout = "Omit" /\ result = "{}"

\* C18: Unmarshal on a descriptor whose Request is Omit returns nil for every
\* response, whether its result is absent, parses or does not parse, and
\* leaves the descriptor, its slot included, as it was.
C18_OmitRequestDecodesNothing ==
    [][\A d \in UnmarshalDescs, resp \in FirstResponses :
           (UnmarshalReturns(d, resp) /\ d.Request = Omit)
               => (ret'[1] = ErrNil /\ invs'[1] = <<d>>)]_vars

\* Unmarshal has returned nil for an Omit request, an int slot that holds 7
\* and a result that parses to 101; the slot still holds 7.
C18_Witness ==
    /\ Returned(1, "Unmarshal")
    /\ invs[1] = <<InvokeOf(NilP, Methods[1], Omit, "int", 7)>>
    /\ output[1].Responses[1].Result = ValidResult(1)
    /\ output[1].Responses[1].Error = NilP
    /\ ret[1] = ErrNil

\* C19: for a descriptor whose Request is not Omit, Unmarshal returns an
\* EmptyResultError naming the method and leaves the slot when the result is
\* absent or the JSON null, an UnmarshalError wrapping the parse error when
\* the result does not parse into the slot's type, and otherwise fills the
\* slot and returns nil, whatever the type of the slot, Omit included.
C19_DecodeOutcomes ==
    [][\A d \in UnmarshalDescs, resp \in FirstResponses :
           (UnmarshalReturns(d, resp) /\ d.Request # Omit)
               => IF resp.Result = NilP \/ resp.Result = Ptr("null")
                  THEN ret'[1] = EmptyResultError(d.Name) /\ invs'[1] = <<d>>
                  ELSE IF Parses(d.Tout, Deref(resp.Result))
                  THEN /\ ret'[1] = ErrNil
                       /\ invs'[1][1].Response =
                              JSONUnmarshal(d.Tout, d.Response, Deref(resp.Result)).slot
                       /\ (d.Tout = "int"
                              => Deref(resp.Result) = MarshalInt(invs'[1][1].Response))
                  ELSE /\ ret'[1].type = "UnmarshalError"
                       /\ ret'[1].Method = d.Name
                       /\ ret'[1].Err # ""]_vars

\* The request the claim describes for the descriptor d.
WireRequestFor(d) ==
    [Version |-> "2.0", ID |-> d.ID, Method |-> d.Name,
     Params |-> IF d.Request = Omit THEN NilP ELSE Ptr(d.Request)]

\* Invoke starts in this step and builds its request.
Builds == pc[1] = "idle" /\ kind'[1] = "Invoke" /\ pc'[1] # "idle"

\* Invoke calls SendRequest in this step.
Sends == kind[1] = "Invoke" /\ pc[1] = "send" /\ pc'[1] = "transport"

\* The request built from a descriptor is the one described, and has no
\* params member on the wire exactly when the payload is Omit.
BuildsWireRequest ==
    Builds => /\ requests'[1] = <<WireRequestFor(invs'[1][1])>>
              /\ (MarshalRequest(requests'[1][1]).params = NilP)
                     <=> (invs'[1][1].Request = Omit)

\* C20 as stated: the request built from a descriptor has version "2.0", the
\* descriptor's method and id, and the payload as params unless the payload
\* is Omit; Invoke hands exactly this request to the transport.
C20_InvokeSendsTheBuiltRequest ==
    [][/\ BuildsWireRequest
       /\ Sends => requests[1] = <<WireRequestFor(invs[1][1])>>]_vars

\* C20: the request built from a descriptor has version "2.0", the
\* descriptor's method and id, and the payload as params unless the payload
\* is Omit; Invoke hands this request to the transport after it has set its
\* id to an id drawn from the generator when the descriptor has none.
C20_InvokeSendsTheBuiltRequestWithAnID ==
    [][/\ BuildsWireRequest
       /\ Sends =>
            IF invs[1][1].ID # NilP
            THEN requests[1] = <<WireRequestFor(invs[1][1])>>
            ELSE /\ Len(drawn) = 1
                 /\ requests[1] = <<[WireRequestFor(invs[1][1])
                                        EXCEPT !.ID = Ptr(NewIDInt(drawn[1]))]>>]_vars

\* Invoke is inside the transport with the request of a descriptor that has
\* no id and the Omit payload: the request has the id 1 and no params.
C20_Witness ==
    /\ pc[1] = "transport" /\ kind[1] = "Invoke"
    /\ invs[1][1].ID = NilP /\ invs[1][1].Request = Omit
    /\ requests[1] = <<[Version |-> "2.0", ID |-> Ptr(NewIDInt(1)),
                        Method |-> invs[1][1].Name, Params |-> NilP]>>

-----------------------------------------------------------------------------
(* Claims about the ids of the requests handed to the transport *)

\* The positions of the descriptors whose ID is not set.
WithoutID(ds) == {i \in 1..Len(ds) : ds[i].ID = NilP}

\* The request has an id: an id member is written for it.
HasID(req) == ~OmitZero(req.ID)

\* The call of caller 1 is inside SendRequest.
InTransport == pc[1] = "transport"

\* C21: when Invoke or InvokeBatch calls SendRequest, exactly one id has been
\* drawn from the generator for each descriptor whose ID is not set and none
\* for the others, the request of a descriptor with an explicit id carries
\* that id unchanged, and every request has an id.
C21_OneIDPerDescriptorWithoutID ==
    InTransport =>
        /\ Len(drawn) = Cardinality(WithoutID(invs[1]))
        /\ genIdx[1] = WithoutID(invs[1])
        /\ \A i \in 1..Len(invs[1]) :
               invs[1][i].ID # NilP => requests[1][i].ID = invs[1][i].ID
        /\ \A i \in 1..Len(requests[1]) : HasID(requests[1][i])

-----------------------------------------------------------------------------
(* Claims about the calls of SendRequest *)

\* Caller 1 has started an Invoke call, or an InvokeBatch call on a list that
\* is not empty.
Sending == kind[1] \in {"Invoke", "InvokeBatch"} /\ Len(invs[1]) > 0

\* The call has not yet called SendRequest.
BeforeSend == pc[1] \in {"lock", "incr", "unlock", "send"}

\* C22: every Invoke call, and every InvokeBatch call on a list that is not
\* empty, calls SendRequest exactly once: it calls it in the end, has called
\* it once when SendRequest returns and when the call returns, never calls
\* it a second time, and returns once SendRequest has returned, whatever
\* the outcome.
C22_SendRequestIsCalledOnce ==
    /\ [](sends[1] <= 1)
    /\ []((Sending /\ pc[1] \in {"transport", "recv", "done"}) => sends[1] = 1)
    /\ [][(Sending /\ pc[1] = "recv") => pc'[1] = "done"]_vars
    /\ (Sending /\ BeforeSend) ~> (pc[1] = "transport")
    /\ (Sending /\ pc[1] = "recv") ~> (pc[1] = "done")

\* Invoke has returned an UnmarshalError after one call of SendRequest.
C22_Witness ==
    /\ Returned(1, "Invoke")
    /\ sends[1] = 1
    /\ ret[1].type = "UnmarshalError"

-----------------------------------------------------------------------------
(* Claims about the callers sharing one Client *)

\* C23: the mutex of the generator is held only by a caller inside
\* generateId, never by a caller inside SendRequest; while one caller is
\* inside SendRequest, another caller that asks for an id gets the mutex
\* unless a third caller is inside generateId.
C23_LockIsNotHeldInTransport ==
    \A p \in Callers :
        /\ mu = p => pc[p] \in {"incr", "unlock"}
        /\ pc[p] = "transport" =>
               /\ mu # p
               /\ \A q \in Callers \ {p} :
                      (pc[q] = "lock" /\ \A r \in Callers \ {p, q} : mu # r)
                          => ENABLED GenLock(q)

\* Two callers are inside SendRequest at the same time, the second having
\* drawn its id while the first was there; the mutex is free.
C23_Witness ==
    /\ pc[1] = "transport" /\ pc[2] = "transport"
    /\ HeldIDs(1) = {NewIDInt(1)}
    /\ HeldIDs(2) = {NewIDInt(2)}
    /\ mu = 0

-----------------------------------------------------------------------------
(* Claims about Equal and references to no identifier *)

\* C24: Equal returns false and does not panic when its argument is the
\* untyped nil and when it is a nil *IDValue, whatever the receiver holds.
C24_EqualWithMissingReferenceIsFalse ==
    lastOp = "EqualMissing" => (~panicked /\ ~eq)

-----------------------------------------------------------------------------
(* Claims about the correlation of responses in InvokeBatch *)

\* InvokeBatch returns to caller 1 in this step, after SendRequest succeeded
\* with an output.
BatchReturns ==
    /\ pc[1] = "recv" /\ kind[1] = "InvokeBatch" /\ pc'[1] = "done"
    /\ Succeeded(output[1])

\* The slot of the descriptor at position i is populated in this step.
Populated(i) == invs'[1][i].Response # invs[1][i].Response

\* The slot of the descriptor at position i holds, after this step, the
\* result of an error-free response that carries the id of its request.
PopulatedFromAnswer(i) ==
    \E j \in 1..Len(output[1].Responses) :
        /\ Answers(output[1].Responses[j], requests[1][i])
        /\ output[1].Responses[j].Error = NilP
        /\ output[1].Responses[j].Result = ValidResult(j)
        /\ invs'[1][i].Response = 100 + j

\* Every slot populated in this step is populated from a response with the
\* id of its request, and the first request that cannot be completed, when it
\* has a string or integer id that no response carries, is reported missing.
CorrelatesByEqualID ==
    \A i \in 1..Len(requests[1]) :
        /\ Populated(i) => PopulatedFromAnswer(i)
        /\ (/\ Missing(requests[1][i], output[1])
            /\ \A k \in 1..(i - 1) :
                   /\ ~Notification(requests[1][k])
                   /\ ~CannotComplete(invs[1][k], requests[1][k], output[1]))
               => ret'[1] = MissingResponseError(requests[1][i].Method)

\* C25: InvokeBatch populates the slot of a descriptor only from a response
\* whose id equals the id of its request in variant and value; a request
\* with a string or integer id for which there is no such response, the
\* requests before it being completed, fails with a MissingResponseError
\* naming its method, also when a response carries the same text in the
\* other variant.
C25_SlotIsPopulatedFromEqualIDOnly ==
    [][BatchReturns => CorrelatesByEqualID]_vars

\* The requests that have an id have pairwise-distinct ids.
DistinctIDsAmongRequestsWithID(reqs) ==
    \A i, j \in 1..Len(reqs) :
        (i # j /\ HasID(reqs[i]) /\ HasID(reqs[j]))
            => ~Equal(Deref(reqs[i].ID), Deref(reqs[j].ID))

\* The descriptors at positions i and j are decoded in this step from one and
\* the same response.
DecodedFromSameResponse(i, j) ==
    /\ Populated(i) /\ Populated(j)
    /\ LastWithKey(output[1].Responses, String(Deref(requests[1][i].ID)))
           = LastWithKey(output[1].Responses, String(Deref(requests[1][j].ID)))

\* C26: the requests that InvokeBatch hands to SendRequest with an id have
\* pairwise-distinct ids, whether the ids are chosen by the caller or
\* generated, and no two descriptors of the batch are decoded from the same
\* response.
C26_BatchRequestIDsAreDistinct ==
    /\ []((InTransport /\ kind[1] = "InvokeBatch")
             => DistinctIDsAmongRequestsWithID(requests[1]))
    /\ [][BatchReturns =>
             \A i, j \in 1..Len(requests[1]) :
                 i # j => ~DecodedFromSameResponse(i, j)]_vars

-----------------------------------------------------------------------------
(* Claims about the responses Invoke looks at *)

\* Invoke returns to caller 1 in this step, after SendRequest succeeded with
\* at least one response.
InvokeReturnsWithResponses ==
    /\ pc[1] = "recv" /\ kind[1] = "Invoke" /\ pc'[1] = "done"
    /\ HasResponses(output[1])

\* What the error payload and the result of a response alone make of the
\* descriptor d calling method: the error returned and the descriptor
\* afterwards.
DecidedBy(d, method, error, result) ==
    IF error # NilP
    THEN [ret |-> RPCError(method, Deref(error).Code, Deref(error).Message,
                           Deref(error).Data),
          inv |-> d]
    ELSE IF d.Request = Omit THEN [ret |-> ErrNil, inv |-> d]
    ELSE IF result = NilP THEN [ret |-> EmptyResultError(method), inv |-> d]
    ELSE LET r == JSONUnmarshal(d.Tout, d.Response, Deref(result))
         IN  [ret |-> IF r.err = "" THEN ErrNil ELSE UnmarshalError(method, r.err),
              inv |-> [d EXCEPT !.Response = r.slot]]

\* C27: the outcome of Invoke is decided by the error payload and the result
\* of the first response alone: whether its id is that of the request, some
\* other id or none, and whatever responses follow it.
C27_FirstResponseDecides ==
    [][InvokeReturnsWithResponses =>
          LET first == output[1].Responses[1]
              o == DecidedBy(invs[1][1], invs[1][1].Name, first.Error, first.Result)
          IN  ret'[1] = o.ret /\ invs'[1] = <<o.inv>>]_vars

\* Invoke has returned nil and filled the slot with 101 for a request with the
\* id 1, from a first response with the id 2 that was followed by a response
\* with the id 1 and an error payload.
C27_Witness ==
    /\ Returned(1, "Invoke")
    /\ requests[1][1].ID = Ptr(NewIDInt(1))
    /\ output[1] = OutputOf("", FALSE,
                     <<JSONRPCResponseOf(Ptr(NewIDInt(2)), ValidResult(1), NilP),
                       JSONRPCResponseOf(Ptr(NewIDInt(1)), NilP,
                                         Ptr(MethodNotFoundPayload))>>)
    /\ ret[1] = ErrNil
    /\ invs[1][1].Response = 101

-----------------------------------------------------------------------------
(* Claims about the range of the generated ids *)

\* C28: every id the sequence generator returns is an integer from 1 to
\* MaxInt32, however many ids were drawn before it, on a build with a 64-bit
\* int and on a build with a 32-bit int alike.
C28_GeneratedIDsAreInRange ==
    /\ \A k \in 1..Len(drawn) : 1 <= drawn[k] /\ drawn[k] <= MaxInt32
    /\ \A p \in Callers : \A id \in HeldIDs(p) :
           1 <= Deref(id.intVar) /\ Deref(id.intVar) <= MaxInt32

-----------------------------------------------------------------------------
(* Claims about what a call leaves of its descriptors *)

\* The ID, Name and Request of every descriptor of caller 1 are after this
\* step what they were before it.
DescriptorsKeepIDNameRequest ==
    /\ Len(invs'[1]) = Len(invs[1])
    /\ \A i \in 1..Len(invs[1]) :
           /\ invs'[1][i].ID = invs[1][i].ID
           /\ invs'[1][i].Name = invs[1][i].Name
           /\ invs'[1][i].Request = invs[1][i].Request

\* The ids drawn by the calls of caller 1 so far: as many for each call as it
\* has descriptors without an id, all different, the last of them being the
\* ids of the requests of the call in progress.
FreshIDsForEveryCall ==
    LET n == Cardinality(WithoutID(invs[1]))
    IN  /\ Len(drawn) = calls[1] * n
        /\ \A j, k \in 1..Len(drawn) : j # k => drawn[j] # drawn[k]
        /\ HeldIDs(1) = {NewIDInt(drawn[k]) : k \in (Len(drawn) - n + 1)..Len(drawn)}
        /\ genIdx[1] = WithoutID(invs[1])

\* C29: no step of Invoke or InvokeBatch, from the start of the call to its
\* return, changes the ID, Name or Request of a descriptor, so that a
\* descriptor without an id has none after the call; and every call made
\* with the same descriptors draws ids of its own for those without an id.
C29_DescriptorIDNameRequestAreNotWritten ==
    /\ [][pc[1] # "idle" => DescriptorsKeepIDNameRequest]_vars
    /\ [](InTransport => FreshIDsForEveryCall)

\* The second Invoke call with one descriptor that has no id is inside
\* SendRequest: the first call filled the slot with 101 and had the id 1, this
\* request has the id 2, and the descriptor still has no id.
C29_Witness ==
    /\ InTransport /\ kind[1] = "Invoke" /\ calls[1] = 2
    /\ invs[1][1].ID = NilP
    /\ invs[1][1].Response = 101
    /\ requests[1][1].ID = Ptr(NewIDInt(2))
    /\ drawn = <<1, 2>>

-----------------------------------------------------------------------------
(* Claims about repeated and unmatched responses in InvokeBatch *)

\* Every request before position i is a notification or is completed from
\* the last response that carries its id.
CompletedBefore(i) ==
    \A k \in 1..(i - 1) : ~CannotComplete(invs[1][k], requests[1][k], output[1])

\* The descriptor at position i is processed in this step against the last
\* of the responses that carry the id of its request: its error payload is
\* returned as an RPCError, or its result is decoded into the slot.
DecidedByLastAnswer(i) ==
    LET a == LastAnswer(requests[1][i], output[1])
        u == Unmarshal(invs[1][i], a)
    IN  IF a.Error # NilP
        THEN /\ ret'[1] = RPCError(requests[1][i].Method, Deref(a.Error).Code,
                                   Deref(a.Error).Message, Deref(a.Error).Data)
             /\ invs'[1][i] = invs[1][i]
        ELSE IF u.err # ErrNil
        THEN ret'[1] = u.err /\ invs'[1][i] = u.inv
        ELSE invs'[1][i] = u.inv

\* C30: when several responses carry the id of a request that InvokeBatch
\* gets to, the last of them in the order of the output decides the outcome
\* for its descriptor; the responses whose id is the id of no request change
\* nothing: when every request can be completed the call returns nil.
C30_LastResponseWithTheIDDecides ==
    [][BatchReturns =>
          /\ \A i \in 1..Len(requests[1]) :
                 (/\ CompletedBefore(i)
                  /\ ~Notification(requests[1][i])
                  /\ ~Missing(requests[1][i], output[1]))
                     => DecidedByLastAnswer(i)
          /\ CompletedBefore(Len(requests[1]) + 1) => ret'[1] = ErrNil]_vars

====
